---- MODULE Spec2Model ----
(***************************************************************************)
(* Model of shai's agent control loop (src/main.go, second revision,      *)
(* lines 446-851): runAgent, callOllama, confirmAction, executeCommand.   *)
(*                                                                         *)
(* Strings are sequences of fragments.  Text that comes from outside the  *)
(* program (model replies, lines read from standard input) is held one    *)
(* character per fragment, so that TrimSpace, IndexFunc, ToUpper and      *)
(* ToLower are computed character by character as the Go library does.    *)
(* A format literal of the program is one fragment; fmt.Sprintf and       *)
(* strings.Builder are concatenation.                                     *)
(***************************************************************************)
EXTENDS Integers, Sequences, FiniteSets, TLC

VARIABLES
    pc,               \* where the process is: "main", "call", "confirm_run",
                      \* "execute", "read_answer", "confirm_continue",
                      \* "returned" (runAgent has returned), "exited"
    fullSystemPrompt, \* runAgent's parameter, built once by main
    messages,         \* runAgent's local: the conversation history
    step,             \* runAgent's local: the step counter
    modelOutput,      \* runAgent's local: the trimmed reply of this step
    action,           \* runAgent's local: the action keyword of this step
    content,          \* runAgent's local: the payload of this step
    err,              \* what runAgent returned: "running", "nil" or an error text
    calls,            \* every callOllama call: the step, the history it was given,
                      \* the message list it sent, how the endpoint answered,
                      \* the action and content parsed from the returned text
    printed,          \* the N of every "--- Step N ---" line printed, in order
    gate,             \* every confirmAction call: step, prompt, outcome
    executed,         \* every executeCommand call: step, command, how the
                      \* command ended, what executeCommand returned
    reads,            \* every reader.ReadString call: step and reader
    line,             \* the line reader.ReadString returned in this iteration
                      \* (confirmAction's input, runAgent's userInput), held
                      \* while the iteration acts on it; NoLine otherwise
    startup,          \* what main has done before the loop, in order: "usage",
                      \* "loadConfig", "fatal", "runAgent"
    exitStatus        \* the exit status of the process: <<>> while it runs

vars == <<pc, fullSystemPrompt, messages, step, modelOutput, action, content,
          err, calls, printed, gate, executed, reads, line, startup, exitStatus>>

(***************************************************************************)
(* Bounds of the model.                                                    *)
(***************************************************************************)
MaxSteps == 3

(***************************************************************************)
(* Character-level string functions of the Go standard library.           *)
(***************************************************************************)
LowerLetters == <<"a","b","c","d","e","f","g","h","i","j","k","l","m",
                  "n","o","p","q","r","s","t","u","v","w","x","y","z">>
UpperLetters == <<"A","B","C","D","E","F","G","H","I","J","K","L","M",
                  "N","O","P","Q","R","S","T","U","V","W","X","Y","Z">>

IndexIn(c, letters) ==
    IF \E i \in 1..Len(letters) : letters[i] = c
    THEN CHOOSE i \in 1..Len(letters) : letters[i] = c
    ELSE 0

UpperTable ==
    [c \in {LowerLetters[i] : i \in 1..Len(LowerLetters)} |->
        UpperLetters[IndexIn(c, LowerLetters)]]

LowerTable ==
    [c \in {UpperLetters[i] : i \in 1..Len(UpperLetters)} |->
        LowerLetters[IndexIn(c, UpperLetters)]]

\* unicode.ToUpper on one character: other characters map to themselves
ToUpperChar(c) == IF c \in DOMAIN UpperTable THEN UpperTable[c] ELSE c

\* unicode.ToLower on one character
ToLowerChar(c) == IF c \in DOMAIN LowerTable THEN LowerTable[c] ELSE c

\* strings.ToUpper
ToUpper(s) == IF s = <<>> THEN <<>> ELSE [i \in 1..Len(s) |-> ToUpperChar(s[i])]

\* strings.ToLower
ToLower(s) == IF s = <<>> THEN <<>> ELSE [i \in 1..Len(s) |-> ToLowerChar(s[i])]

\* unicode.IsSpace, on the characters the model uses
IsSpace(c) == c \in {" ", "\t", "\n", "\r"}

RECURSIVE TrimLeft(_)
TrimLeft(s) ==
    IF s = <<>> THEN <<>>
    ELSE IF IsSpace(Head(s)) THEN TrimLeft(Tail(s)) ELSE s

RECURSIVE TrimRight(_)
TrimRight(s) ==
    IF s = <<>> THEN <<>>
    ELSE IF IsSpace(s[Len(s)]) THEN TrimRight(SubSeq(s, 1, Len(s) - 1)) ELSE s

\* strings.TrimSpace
TrimSpace(s) == TrimRight(TrimLeft(s))

\* every whitespace character taken as the end of the keyword
IsSeparator_AnySpace(r) == IsSpace(r)

\* the predicate runAgent hands to strings.IndexFunc
IsSeparator(r) == r = " " \/ r = "\n"

\* strings.IndexFunc(modelOutput, IsSeparator): 0-based index of the first
\* separator, -1 when there is none
IndexSeparator(s) ==
    IF \E i \in 1..Len(s) : IsSeparator(s[i])
    THEN (CHOOSE i \in 1..Len(s) :
              IsSeparator(s[i]) /\ \A j \in 1..(i - 1) : ~IsSeparator(s[j])) - 1
    ELSE -1

(***************************************************************************)
(* The action parser inlined in runAgent.                                  *)
(***************************************************************************)
\* the keyword uppercased as the code has it, the payload left untrimmed
ParseAction_Untrimmed(out) ==
    LET idx == IndexSeparator(out) IN
    IF idx = -1
    THEN [action |-> ToUpper(out), content |-> <<>>]
    ELSE [action  |-> ToUpper(SubSeq(out, 1, idx)),
          content |-> SubSeq(out, idx + 2, Len(out))]

\* the keyword taken as written, without uppercasing
ParseAction_NoUpper(out) ==
    LET idx == IndexSeparator(out) IN
    IF idx = -1
    THEN [action |-> out, content |-> <<>>]
    ELSE [action  |-> SubSeq(out, 1, idx),
          content |-> TrimSpace(SubSeq(out, idx + 2, Len(out)))]

ParseAction(out) ==
    LET idxSeparator == IndexSeparator(out) IN
    IF idxSeparator = -1
    THEN [action |-> ToUpper(out), content |-> <<>>]
    ELSE [action  |-> ToUpper(SubSeq(out, 1, idxSeparator)),
          content |-> TrimSpace(SubSeq(out, idxSeparator + 2, Len(out)))]

TASK_COMPLETE == <<"T","A","S","K","_","C","O","M","P","L","E","T","E">>
TASK_STOPPED  == <<"T","A","S","K","_","S","T","O","P","P","E","D">>
RUN == <<"R","U","N">>
ASK == <<"A","S","K">>

(***************************************************************************)
(* The world outside the program: what the endpoint answers, what the     *)
(* human types, how a spawned command ends.                                *)
(***************************************************************************)
Replies ==
    { <<"R","U","N"," ","l","s">>,            \* RUN, command on the same line
      <<"r","u","n","\n","p","w","d"," ">>,   \* lower case, command on the next line
      <<"R","U","N">>,                        \* RUN without a command
      <<"A","S","K"," ","o","k","?">>,        \* ASK with a question
      <<"A","S","K","\n">>,                   \* ASK without a question
      <<"T","A","S","K","_","C","O","M","P","L","E","T","E">>,
      <<"T","A","S","K","_","S","T","O","P","P","E","D"," ","n","o">>,
      <<"R","U","N","\t","l","s","\n">> }     \* a tab is no separator

ChatFailures == {"unreachable", "status", "undecodable"}

EndpointOutcomes ==
    [kind : {"ok"}, content : Replies] \cup [kind : ChatFailures, content : {<<>>}]

\* what reader.ReadString('\n') can return at the gate: the line with its
\* newline, or nothing at end of input
GateLines ==
    { <<"\n">>, <<"y","\n">>, <<"Y","\n">>, <<"n","\n">>, <<"N","\n">>,
      <<"q","\n">>, <<"Q","\n">>, <<"n","o","\n">>, <<" ","n"," ","\n">>, <<>> }

AnswerLines == { <<" ","a","\n">>, <<>> }

\* how cmd.Run() can end: exit 0, a non-zero exit, or the shell cannot be started
RunOutcomes ==
    { [execErr |-> <<>>, stdout |-> <<"out\n">>, stderr |-> <<"warn\n">>],
      [execErr |-> <<"exit status 1">>, stdout |-> <<>>, stderr |-> <<"boom\n">>],
      [execErr |-> <<"fork/exec: no such file or directory">>,
       stdout |-> <<>>, stderr |-> <<>>] }

Tasks == {"list files"}
AdditionalContexts == {"", "be careful"}

(***************************************************************************)
(* generateSystemPrompt                                                    *)
(***************************************************************************)
generateSystemPrompt(initialTask, additionalContext) ==
    IF additionalContext = ""
    THEN <<"systemPromptTemplate", initialTask, "">>
    ELSE <<"systemPromptTemplate", initialTask,
           "additionalContextTemplate", additionalContext>>

(***************************************************************************)
(* callOllama                                                              *)
(***************************************************************************)
\* every message given the role of the user
Message_AllUser(role, text) == [role |-> "user", content |-> text]

Message(role, text) == [role |-> role, content |-> text]

\* the system instruction put after the history
FullMessages_SystemLast(msgs, systemInstruction) ==
    msgs \o <<Message("system", systemInstruction)>>

FullMessages(msgs, systemInstruction) ==
    <<Message("system", systemInstruction)>> \o msgs

callOllama(msgs, systemInstruction, net) ==
    [request |-> FullMessages(msgs, systemInstruction),
     content |-> IF net.kind = "ok" THEN net.content ELSE <<>>,
     err     |-> CASE net.kind = "ok"          -> "nil"
                   [] net.kind = "unreachable" -> "failed to send request to Ollama"
                   [] net.kind = "status"      -> "Ollama API returned non-200 status code"
                   [] net.kind = "undecodable" -> "failed to decode Ollama chat response"]

\* confirmAction comparing the line as typed, without lower-casing it
confirmAction_NoLower(ln) ==
    LET input == TrimSpace(ln) IN
    IF input = <<"q">> THEN "exit"
    ELSE IF input # <<"n">> THEN "approve" ELSE "reject"

(***************************************************************************)
(* confirmAction: "exit" stands for os.Exit(0), which never returns        *)
(***************************************************************************)
\* the failed read taken as a refusal
confirmAction_EofRejects(ln) ==
    LET input == TrimSpace(ToLower(ln)) IN
    IF ln = <<>> THEN "reject"
    ELSE IF input = <<"q">> THEN "exit"
    ELSE IF input # <<"n">> THEN "approve" ELSE "reject"

confirmAction(ln) ==
    LET input == TrimSpace(ToLower(ln)) IN
    IF input = <<"q">> THEN "exit"
    ELSE IF input # <<"n">> THEN "approve" ELSE "reject"

\* executeCommand handing the failure of the command to its caller
executeCommand_Propagates(command, run) ==
    IF run.execErr # <<>>
    THEN [status |-> "ERROR",
          output |-> <<"Command failed with error: ">> \o run.execErr
                     \o <<"\n">> \o run.stderr,
          err    |-> "command failed"]
    ELSE [status |-> "SUCCESS",
          output |-> <<"STDOUT:\n">> \o run.stdout \o <<"\nSTDERR:\n">> \o run.stderr,
          err    |-> "nil"]

(***************************************************************************)
(* executeCommand: run is how cmd.Run() ended; an empty execErr is nil     *)
(***************************************************************************)
\* the success output without what the command wrote to standard output
executeCommand_NoStdout(command, run) ==
    IF run.execErr # <<>>
    THEN [status |-> "ERROR",
          output |-> <<"Command failed with error: ">> \o run.execErr
                     \o <<"\n">> \o run.stderr,
          err    |-> "nil"]
    ELSE [status |-> "SUCCESS",
          output |-> <<"STDOUT:\n">> \o <<"\nSTDERR:\n">> \o run.stderr,
          err    |-> "nil"]

executeCommand(command, run) ==
    IF run.execErr # <<>>
    THEN [status |-> "ERROR",
          output |-> <<"Command failed with error: ">> \o run.execErr
                     \o <<"\n">> \o run.stderr,
          err    |-> "nil"]
    ELSE [status |-> "SUCCESS",
          output |-> <<"STDOUT:\n">> \o run.stdout \o <<"\nSTDERR:\n">> \o run.stderr,
          err    |-> "nil"]

(***************************************************************************)
(* runAgent                                                                *)
(***************************************************************************)
\* no line is held: a value no line read from standard input equals
NoLine == <<"(no line)">>

START == <<"S","T","A","R","T">>

\* Dispatch without the tests for an empty payload
Dispatch_NoEmptyCheck(act, cont) ==
    IF act = TASK_COMPLETE THEN "complete"
    ELSE IF act = TASK_STOPPED THEN "stopped"
    ELSE IF act = RUN THEN "run"
    ELSE IF act = ASK THEN "ask"
    ELSE "unrecognized"

\* Dispatch without the TASK_STOPPED test
Dispatch_NoStopped(act, cont) ==
    IF act = TASK_COMPLETE THEN "complete"
    ELSE IF act = RUN THEN (IF cont = <<>> THEN "run_malformed" ELSE "run")
    ELSE IF act = ASK THEN (IF cont = <<>> THEN "ask_malformed" ELSE "ask")
    ELSE "unrecognized"

\* a RUN reply with a command handled as a question
Dispatch_RunAsAsk(act, cont) ==
    IF act = TASK_COMPLETE THEN "complete"
    ELSE IF act = TASK_STOPPED THEN "stopped"
    ELSE IF act = RUN THEN (IF cont = <<>> THEN "run_malformed" ELSE "ask")
    ELSE IF act = ASK THEN (IF cont = <<>> THEN "ask_malformed" ELSE "ask")
    ELSE "unrecognized"

\* an unknown keyword taken as the end of the task
Dispatch_DefaultStop(act, cont) ==
    IF act = TASK_COMPLETE THEN "complete"
    ELSE IF act = RUN THEN (IF cont = <<>> THEN "run_malformed" ELSE "run")
    ELSE IF act = ASK THEN (IF cont = <<>> THEN "ask_malformed" ELSE "ask")
    ELSE "stopped"

\* which branch of the loop body a parsed reply takes
Dispatch(act, cont) ==
    IF act = TASK_COMPLETE THEN "complete"
    ELSE IF act = TASK_STOPPED THEN "stopped"
    ELSE IF act = RUN THEN (IF cont = <<>> THEN "run_malformed" ELSE "run")
    ELSE IF act = ASK THEN (IF cont = <<>> THEN "ask_malformed" ELSE "ask")
    ELSE "unrecognized"

MalformedRunMessage(out) ==
    Message("user",
        <<"CRITICAL ERROR: Previous response was RUN but provided no command. Full response was:\n">>
        \o out)

MalformedAskMessage(out) ==
    Message("user",
        <<"CRITICAL ERROR: Previous response was ASK but provided no question. Full response was:\n">>
        \o out)

\* the feedback without the output of the command
FeedbackMessage_NoOutput(status, output) ==
    Message("user",
        <<"PREVIOUS_COMMAND_RESULT:\n", "STATUS: ", status, "\n", "OUTPUT:\n">>
        \o <<"\n\n">>)

FeedbackMessage(status, output) ==
    Message("user",
        <<"PREVIOUS_COMMAND_RESULT:\n", "STATUS: ", status, "\n", "OUTPUT:\n">>
        \o output \o <<"\n\n">>)

\* the line appended as it was read
ClarificationMessage_Untrimmed(userInput) ==
    Message("user", <<"USER_CLARIFICATION: ">> \o userInput)

ClarificationMessage(userInput) ==
    Message("user", <<"USER_CLARIFICATION: ">> \o TrimSpace(userInput))

\* the parse failure reported without the reply
UnparseableMessage_Bare(out) ==
    Message("user",
        <<"UNPARSEABLE_RESPONSE_ERROR: Your previous response did not follow the protocol. Your previous output was:\n">>)

UnparseableMessage(out) ==
    Message("user",
        <<"UNPARSEABLE_RESPONSE_ERROR: Your previous response did not follow the protocol. Your previous output was:\n">>
        \o out)

\* the prompt's leading symbol is left out
RunPrompt(command) ==
    <<"shai wants to run this command:\n\n  $ ">> \o command \o <<"\n\nAllow?">>

ContinuePrompt == <<"shai provided an unparseable response. Continue the loop?">>

\* the new message written over the last one
AppendMessage_Overwrite(hist, m) == Append(SubSeq(hist, 1, Len(hist) - 1), m)

\* the new message appended twice
AppendMessage_Twice(hist, m) == Append(Append(hist, m), m)

\* messages = append(messages, m)
AppendMessage(hist, m) == Append(hist, m)

\* the error of callOllama ignored
CallFailed_Ignored(r) == FALSE

\* the test of callOllama's error after the call
CallFailed(r) == r.err # "nil"

\* the increment forgotten
NextStep_Forgotten(s) == s

\* step++
NextStep(s) == s + 1

\* AfterConfirmRun with the rejection test dropped: a rejected command runs
AfterConfirmRun_NoCheck(answer) ==
    CASE answer = "exit"    -> "exited"
      [] answer = "reject"  -> "execute"
      [] answer = "approve" -> "execute"

\* AfterConfirmRun with the rejection skipping the command instead of
\* returning: the loop goes on to the next chat call
AfterConfirmRun_Skip(answer) ==
    CASE answer = "exit"    -> "exited"
      [] answer = "reject"  -> "call"
      [] answer = "approve" -> "execute"

\* where the loop goes once confirmAction has answered at the command prompt
AfterConfirmRun(answer) ==
    CASE answer = "exit"    -> "exited"
      [] answer = "reject"  -> "returned"
      [] answer = "approve" -> "execute"

\* the loop left after an approval at the continue prompt
AfterConfirmContinue_Stops(answer) ==
    CASE answer = "exit"    -> "exited"
      [] answer = "reject"  -> "returned"
      [] answer = "approve" -> "returned"

\* where the loop goes once confirmAction has answered at the continue prompt
AfterConfirmContinue(answer) ==
    CASE answer = "exit"    -> "exited"
      [] answer = "reject"  -> "returned"
      [] answer = "approve" -> "call"

Init ==
    /\ pc = "call"
    /\ \E t \in Tasks, c \in AdditionalContexts :
           fullSystemPrompt = generateSystemPrompt(t, c)
    /\ messages = <<Message("user", START)>>
    /\ step = 1
    /\ modelOutput = <<>>
    /\ action = <<>>
    /\ content = <<>>
    /\ err = "running"
    /\ calls = <<>>
    /\ printed = <<>>
    /\ gate = <<>>
    /\ executed = <<>>
    /\ reads = <<>>
    /\ line = NoLine
    /\ startup = <<"loadConfig", "runAgent">>
    /\ exitStatus = <<>>

\* One pass from the top of the loop: print the step, call the endpoint, and on
\* a reply append it, parse it and take the branch up to its first blocking
\* read (or to the end of the iteration when the branch reads nothing).
CallOllama(net) ==
    /\ pc = "call"
    /\ step <= MaxSteps
    /\ LET r      == callOllama(messages, fullSystemPrompt, net)
           out    == TrimSpace(r.content)
           parsed == ParseAction(out)
           branch == Dispatch(parsed.action, parsed.content)
           hist   == AppendMessage(messages, Message("assistant", r.content))
       IN  /\ printed' = Append(printed, step)
           /\ calls' = Append(calls, [step |-> step, history |-> messages,
                                      request |-> r.request, outcome |-> net.kind,
                                      parsed |-> parsed])
           /\ IF CallFailed(r)
              THEN /\ pc' = "returned"
                   /\ err' = "Ollama API call failed: " \o r.err
                   /\ UNCHANGED <<messages, step, modelOutput, action, content>>
              ELSE /\ modelOutput' = out
                   /\ action' = parsed.action
                   /\ content' = parsed.content
                   /\ CASE branch \in {"complete", "stopped"} ->
                             /\ messages' = hist
                             /\ pc' = "returned"
                             /\ err' = "nil"
                             /\ UNCHANGED step
                        [] branch = "run_malformed" ->
                             /\ messages' = AppendMessage(hist, MalformedRunMessage(out))
                             /\ step' = NextStep(step)
                             /\ pc' = "call"
                             /\ UNCHANGED err
                        [] branch = "ask_malformed" ->
                             /\ messages' = AppendMessage(hist, MalformedAskMessage(out))
                             /\ step' = NextStep(step)
                             /\ pc' = "call"
                             /\ UNCHANGED err
                        [] branch = "run" ->
                             /\ messages' = hist
                             /\ pc' = "confirm_run"
                             /\ UNCHANGED <<step, err>>
                        [] branch = "ask" ->
                             /\ messages' = hist
                             /\ pc' = "read_answer"
                             /\ UNCHANGED <<step, err>>
                        [] branch = "unrecognized" ->
                             /\ messages' = hist
                             /\ pc' = "confirm_continue"
                             /\ UNCHANGED <<step, err>>
    /\ UNCHANGED <<fullSystemPrompt, gate, executed, reads, line, startup, exitStatus>>

\* confirmAction at the command prompt reads a line and answers
ConfirmRun(ln) ==
    /\ pc = "confirm_run"
    /\ LET answer == confirmAction(ln) IN
           /\ gate' = Append(gate, [step |-> step, message |-> RunPrompt(content),
                                    answer |-> answer])
           /\ pc' = AfterConfirmRun(answer)
           /\ err' = IF pc' = "returned"
                     THEN "user rejected command, terminating" ELSE err
    /\ reads' = Append(reads, [step |-> step, by |-> "confirmAction"])
    /\ line' = ln
    /\ exitStatus' = IF pc' = "exited" THEN <<0>> ELSE exitStatus
    /\ UNCHANGED <<fullSystemPrompt, messages, step, modelOutput, action, content,
                   calls, printed, executed, startup>>

\* executeCommand runs the approved command; its result becomes the next user turn
ExecuteCommand(run) ==
    /\ pc = "execute"
    /\ LET command == content
           r == executeCommand(command, run)
       IN  /\ executed' = Append(executed, [step |-> step, command |-> command,
                                            run |-> run, gates |-> Len(gate),
                                            status |-> r.status, output |-> r.output,
                                            err |-> r.err])
           /\ messages' = AppendMessage(messages, FeedbackMessage(r.status, r.output))
    /\ step' = NextStep(step)
    /\ pc' = "call"
    /\ line' = NoLine
    /\ UNCHANGED <<fullSystemPrompt, modelOutput, action, content, err, calls,
                   printed, gate, reads, startup, exitStatus>>

\* the ASK branch reads the human's answer
ReadAnswer(userInput) ==
    /\ pc = "read_answer"
    /\ reads' = Append(reads, [step |-> step, by |-> "runAgent", text |-> userInput])
    /\ line' = NoLine
    /\ messages' = AppendMessage(messages, ClarificationMessage(userInput))
    /\ step' = NextStep(step)
    /\ pc' = "call"
    /\ UNCHANGED <<fullSystemPrompt, modelOutput, action, content, err, calls,
                   printed, gate, executed, startup, exitStatus>>

\* confirmAction at the continue prompt reads a line and answers
ConfirmContinue(ln) ==
    /\ pc = "confirm_continue"
    /\ LET answer == confirmAction(ln) IN
           /\ gate' = Append(gate, [step |-> step, message |-> ContinuePrompt,
                                    answer |-> answer])
           /\ pc' = AfterConfirmContinue(answer)
           /\ err' = IF pc' = "returned"
                     THEN "user rejected unparseable model output, terminating"
                     ELSE err
           /\ IF pc' = "call"
              THEN /\ messages' = AppendMessage(messages, UnparseableMessage(modelOutput))
                   /\ step' = NextStep(step)
              ELSE UNCHANGED <<messages, step>>
    /\ reads' = Append(reads, [step |-> step, by |-> "confirmAction"])
    /\ line' = IF pc' = "call" THEN NoLine ELSE ln
    /\ exitStatus' = IF pc' = "exited" THEN <<0>> ELSE exitStatus
    /\ UNCHANGED <<fullSystemPrompt, modelOutput, action, content,
                   calls, printed, executed, startup>>

Next ==
    \/ \E net \in EndpointOutcomes : CallOllama(net)
    \/ \E ln \in GateLines : ConfirmRun(ln)
    \/ \E run \in RunOutcomes : ExecuteCommand(run)
    \/ \E userInput \in AnswerLines : ReadAnswer(userInput)
    \/ \E ln \in GateLines : ConfirmContinue(ln)

Spec == Init /\ [][Next]_vars

(***************************************************************************)
(* main: the process from its start to its exit, around runAgent           *)
(***************************************************************************)
\* os.Args[1:]
Args == { <<>>, <<"list files">>, <<"list", "files">> }

\* strings.Join(args, " ")
RECURSIVE JoinArgs(_)
JoinArgs(args) ==
    IF args = <<>> THEN ""
    ELSE IF Len(args) = 1 THEN args[1]
    ELSE args[1] \o " " \o JoinArgs(Tail(args))

\* how loadConfig can end: the error it returns and, when there is none, the
\* additional context left in cfg (the default "" when the file is created)
ConfigOutcomes ==
    [err : {"nil"}, additionalContext : AdditionalContexts]
    \cup [err : { "failed to get config path",
                  "failed to write default config",
                  "failed to read config file",
                  "failed to parse config file" },
          additionalContext : {""}]

\* the exit status main ends with once runAgent has returned e: log.Fatalf
\* exits with status 1, returning from main with status 0
StatusAfterRun(e) == IF e # "nil" THEN <<1>> ELSE <<0>>

MainInit ==
    /\ pc = "main"
    /\ fullSystemPrompt = <<>>
    /\ messages = <<>>
    /\ step = 0
    /\ modelOutput = <<>>
    /\ action = <<>>
    /\ content = <<>>
    /\ err = "running"
    /\ calls = <<>>
    /\ printed = <<>>
    /\ gate = <<>>
    /\ executed = <<>>
    /\ reads = <<>>
    /\ line = NoLine
    /\ startup = <<>>
    /\ exitStatus = <<>>

\* main up to its call of runAgent, and runAgent's first statements
MainStart(args, cfgOutcome) ==
    /\ pc = "main"
    /\ IF Len(args) < 1
       THEN /\ startup' = Append(startup, "usage")
            /\ exitStatus' = <<1>>
            /\ pc' = "exited"
            /\ UNCHANGED <<fullSystemPrompt, messages, step>>
       ELSE IF cfgOutcome.err # "nil"
       THEN /\ startup' = startup \o <<"loadConfig", "fatal">>
            /\ exitStatus' = <<1>>
            /\ pc' = "exited"
            /\ UNCHANGED <<fullSystemPrompt, messages, step>>
       ELSE /\ startup' = startup \o <<"loadConfig", "runAgent">>
            /\ fullSystemPrompt' =
                   generateSystemPrompt(JoinArgs(args), cfgOutcome.additionalContext)
            /\ messages' = <<Message("user", START)>>
            /\ step' = 1
            /\ pc' = "call"
            /\ UNCHANGED exitStatus
    /\ UNCHANGED <<modelOutput, action, content, err, calls, printed, gate,
                   executed, reads, line>>

\* main after runAgent has returned
MainEnd ==
    /\ pc = "returned"
    /\ exitStatus' = StatusAfterRun(err)
    /\ pc' = "exited"
    /\ UNCHANGED <<fullSystemPrompt, messages, step, modelOutput, action, content,
                   err, calls, printed, gate, executed, reads, line, startup>>

(***************************************************************************)
(* The loop's passes over a wider set of replies: every spelling of the    *)
(* keywords with every shape of what follows them                          *)
(***************************************************************************)
ParseCalls == 1

ParseKeywords ==
    { <<"R","U","N">>,
      <<"r","u","n">>,
      <<"R","u","n">>,
      <<"A","S","K">>,
      <<"a","s","k">>,
      <<"T","A","S","K","_","C","O","M","P","L","E","T","E">>,
      <<"t","a","s","k","_","c","o","m","p","l","e","t","e">>,
      <<"T","a","s","k","_","S","t","o","p","p","e","d">>,
      <<"l","s">>,
      <<>> }

ParseTails ==
    { <<>>,
      <<" ","l","s">>,
      <<"\n","l","s">>,
      <<"\n","l","s","\n","p","w","d">>,
      <<" "," ","l","s"," ","-","l"," ","\n">>,
      <<"\t","l","s">>,
      <<"\r","\n","l","s">>,
      <<"\t">>,
      <<"\r","\n">> }

\* what callOllama can return as the reply
ParseReplies == { kw \o tail : kw \in ParseKeywords, tail \in ParseTails }

ParseNext ==
    \/ \E reply \in ParseReplies :
          /\ Len(calls) < ParseCalls
          /\ CallOllama([kind |-> "ok", content |-> reply])
    \/ \E ln \in GateLines : ConfirmRun(ln)
    \/ \E run \in RunOutcomes : ExecuteCommand(run)
    \/ \E userInput \in AnswerLines : ReadAnswer(userInput)
    \/ \E ln \in GateLines : ConfirmContinue(ln)

ParseSpec == Init /\ [][ParseNext]_vars

(***************************************************************************)
(* The loop with standard input at its end: every reader.ReadString        *)
(* returns no data (and io.EOF, which both callers drop)                   *)
(***************************************************************************)
EndOfInput == <<>>

EofNext ==
    \/ \E net \in EndpointOutcomes : CallOllama(net)
    \/ ConfirmRun(EndOfInput)
    \/ \E run \in RunOutcomes : ExecuteCommand(run)
    \/ ReadAnswer(EndOfInput)
    \/ ConfirmContinue(EndOfInput)

EofSpec == Init /\ [][EofNext]_vars

MainNext ==
    \/ \E args \in Args, cfgOutcome \in ConfigOutcomes : MainStart(args, cfgOutcome)
    \/ Next
    \/ MainEnd

MainSpec == MainInit /\ [][MainNext]_vars

(***************************************************************************)
(* Reading the logs.                                                       *)
(***************************************************************************)
\* the reply of chat call k: the message appended right after the history
\* that call was given
ReplyOf(k) == messages[Len(calls[k].history) + 1].content
\* the action and the content the loop parsed from that reply
ParsedReply(k) == calls[k].parsed
Answered(k) == calls[k].outcome = "ok" /\ Len(messages) > Len(calls[k].history)
CallOfStep(n) == CHOOSE k \in 1..Len(calls) : calls[k].step = n
GateAt(n) == {g \in 1..Len(gate) : gate[g].step = n}
ExecutedAt(n) == {i \in 1..Len(executed) : executed[i].step = n}
ReadsAt(n) == {i \in 1..Len(reads) : reads[i].step = n}
IsRunPrompt(g) == gate[g].message # ContinuePrompt

(***************************************************************************)
(* C1: a command is executed only in a step whose reply parsed as RUN with *)
(* a non-empty payload, only after confirmAction approved that command in  *)
(* that same step, and the command executed is the parsed payload; hence   *)
(* nothing is executed in a step handled as ASK, TASK_COMPLETE,            *)
(* TASK_STOPPED, UNRECOGNIZED or malformed RUN/ASK.                        *)
(***************************************************************************)
C1_ExecuteOnlyApprovedRun ==
    /\ \A i \in 1..Len(executed) :
         LET e == executed[i] IN
         /\ \E k \in 1..Len(calls) : calls[k].step = e.step
         /\ Answered(CallOfStep(e.step))
         /\ ParsedReply(CallOfStep(e.step)).action = RUN
         /\ ParsedReply(CallOfStep(e.step)).content # <<>>
         /\ e.command = ParsedReply(CallOfStep(e.step)).content
         /\ \E g \in 1..e.gates :
              /\ gate[g].step = e.step
              /\ gate[g].message = RunPrompt(e.command)
              /\ gate[g].answer = "approve"
         /\ \A g \in GateAt(e.step) : gate[g].answer = "approve"
         /\ Cardinality(ExecutedAt(e.step)) = 1
    /\ pc = "execute" =>
         \E g \in GateAt(step) :
             gate[g].answer = "approve" /\ gate[g].message = RunPrompt(content)

C1_Witness ==
    /\ Len(executed) = 2
    /\ executed[1].command = <<"l","s">>
    /\ executed[2].command = <<"p","w","d">>
    /\ \E k \in 1..Len(calls) :
         Answered(k) /\ Dispatch(ParsedReply(k).action, ParsedReply(k).content) = "ask"

(***************************************************************************)
(* C2: a rejection at the command prompt ends runAgent with the user-abort *)
(* error: the pending command is not executed, no user message follows the *)
(* assistant reply, and no chat call or execution comes after it.          *)
(***************************************************************************)
C2_RejectedCommandAborts ==
    \A g \in 1..Len(gate) :
        (IsRunPrompt(g) /\ gate[g].answer = "reject") =>
            /\ pc = "returned"
            /\ err = "user rejected command, terminating"
            /\ g = Len(gate)
            /\ ExecutedAt(gate[g].step) = {}
            /\ calls[Len(calls)].step = gate[g].step
            /\ Len(messages) = Len(calls[Len(calls)].history) + 1
            /\ messages[Len(messages)].role = "assistant"
            /\ \A i \in 1..Len(executed) : executed[i].gates < g
            /\ ~ ENABLED Next

C2_Witness ==
    /\ pc = "returned"
    /\ err = "user rejected command, terminating"
    /\ gate[Len(gate)].answer = "reject"
    /\ Len(executed) = 1
    /\ step = 2

(***************************************************************************)
(* C3: what confirmAction answers for the line it read.                    *)
(*                                                                         *)
(* As claimed: "" / "y" / "Y" approve, "n" / "N" reject, "q" ends the      *)
(* process, and every other line approves.                                 *)
(*                                                                         *)
(* As the code has it: the line is lower-cased and trimmed of surrounding  *)
(* whitespace first; if it is then "q" the process ends at once (runAgent  *)
(* never returns), if it is then "n" the answer is rejection, and any      *)
(* other line (among them "", "y", "Y", "no") is approval.                 *)
(***************************************************************************)
\* the line as the human entered it: without the newline that ends it
Entered(ln) ==
    IF ln # <<>> /\ ln[Len(ln)] = "\n" THEN SubSeq(ln, 1, Len(ln) - 1) ELSE ln

GateAnswered == line # NoLine /\ gate # <<>>
LastAnswer == gate[Len(gate)].answer

\* C3 as claimed
C3_AsClaimed ==
    GateAnswered =>
        CASE Entered(line) \in {<<>>, <<"y">>, <<"Y">>} -> LastAnswer = "approve"
          [] Entered(line) \in {<<"n">>, <<"N">>}       -> LastAnswer = "reject"
          [] Entered(line) = <<"q">>                    -> LastAnswer = "exit"
          [] OTHER                                      -> LastAnswer = "approve"

\* C3 as amended: the comparison is made on the lower-cased, trimmed line
C3_GateAnswer ==
    GateAnswered =>
        /\ CASE TrimSpace(ToLower(line)) = <<"q">> -> LastAnswer = "exit"
             [] TrimSpace(ToLower(line)) = <<"n">> -> LastAnswer = "reject"
             [] OTHER                              -> LastAnswer = "approve"
        /\ Entered(line) \in {<<>>, <<"y">>, <<"Y">>, <<"n","o">>} => LastAnswer = "approve"
        /\ Entered(line) \in {<<"n">>, <<"N">>} => LastAnswer = "reject"
        /\ Entered(line) = <<"q">> => LastAnswer = "exit"
        /\ LastAnswer = "exit" => (pc = "exited" /\ err = "running" /\ ~ ENABLED Next)
        /\ LastAnswer = "reject" => pc = "returned"
        /\ LastAnswer = "approve" => pc = "execute"

C3_Witness ==
    /\ GateAnswered
    /\ line = <<"Q","\n">>
    /\ gate[Len(gate)].message = ContinuePrompt
    /\ pc = "exited"
    /\ Len(gate) = 2
    /\ gate[1].answer = "approve"

(***************************************************************************)
(* C4: a reply whose keyword is TASK_COMPLETE or TASK_STOPPED, with or     *)
(* without text after it, makes runAgent return nil in that step: the gate *)
(* is not invoked, nothing is executed or read, no user message follows    *)
(* the assistant reply, and no chat call follows.                          *)
(***************************************************************************)
IsTerminalReply(k) ==
    Answered(k) /\ ParsedReply(k).action \in {TASK_COMPLETE, TASK_STOPPED}

C4_TerminalKeywordsReturnNil ==
    \A k \in 1..Len(calls) :
        IsTerminalReply(k) =>
            /\ pc = "returned"
            /\ err = "nil"
            /\ k = Len(calls)
            /\ Len(messages) = Len(calls[k].history) + 1
            /\ messages[Len(messages)].role = "assistant"
            /\ GateAt(calls[k].step) = {}
            /\ ExecutedAt(calls[k].step) = {}
            /\ ReadsAt(calls[k].step) = {}
            /\ ~ ENABLED Next

C4_Witness ==
    /\ Len(calls) = 3
    /\ IsTerminalReply(3)
    /\ ParsedReply(3).action = TASK_STOPPED
    /\ ParsedReply(3).content # <<>>
    /\ pc = "returned"
    /\ err = "nil"

(***************************************************************************)
(* C5: a failed chat call (endpoint unreachable, non-200 status,           *)
(* undecodable body) makes runAgent return an error at once: the call is   *)
(* not made again, the history is what it was before the call (only the    *)
(* seed message when step 1 fails), and no gate prompt, read or command    *)
(* execution comes after the failure.                                      *)
(***************************************************************************)
ChatErrors ==
    { "Ollama API call failed: failed to send request to Ollama",
      "Ollama API call failed: Ollama API returned non-200 status code",
      "Ollama API call failed: failed to decode Ollama chat response" }

C5_ChatFailureAborts ==
    \A k \in 1..Len(calls) :
        calls[k].outcome \in ChatFailures =>
            /\ pc = "returned"
            /\ err \in ChatErrors
            /\ k = Len(calls)
            /\ \A j \in 1..Len(calls) : calls[j].step = calls[k].step => j = k
            /\ messages = calls[k].history
            /\ calls[k].step = 1 => messages = <<Message("user", START)>>
            /\ GateAt(calls[k].step) = {}
            /\ ExecutedAt(calls[k].step) = {}
            /\ ReadsAt(calls[k].step) = {}
            /\ ~ ENABLED Next

C5_Witness ==
    /\ Len(calls) = 2
    /\ calls[2].outcome = "status"
    /\ Len(executed) = 1
    /\ pc = "returned"

(***************************************************************************)
(* C6: a reply that parses as RUN or ASK with an empty payload gets one    *)
(* critical-error user message carrying the trimmed reply; the gate is not *)
(* invoked, nothing is executed, no line is read, and the loop goes on     *)
(* with the step incremented.  With an endpoint that has answered "RUN"    *)
(* to every one of N calls, the history holds exactly N critical-error     *)
(* messages, the step counter is N+1 and nothing was ever executed.        *)
(***************************************************************************)
IsMalformedReply(k) ==
    Answered(k) /\ ParsedReply(k).action \in {RUN, ASK} /\ ParsedReply(k).content = <<>>

CriticalPrefixes ==
    { "CRITICAL ERROR: Previous response was RUN but provided no command. Full response was:\n",
      "CRITICAL ERROR: Previous response was ASK but provided no question. Full response was:\n" }

IsCriticalError(m) ==
    m.role = "user" /\ m.content # <<>> /\ m.content[1] \in CriticalPrefixes

CriticalErrors == {i \in 1..Len(messages) : IsCriticalError(messages[i])}

C6_MalformedReplyRecovery ==
    /\ \A k \in 1..Len(calls) :
         IsMalformedReply(k) =>
            LET h == Len(calls[k].history) IN
            /\ Len(messages) >= h + 2
            /\ IsCriticalError(messages[h + 2])
            /\ Tail(messages[h + 2].content) = TrimSpace(ReplyOf(k))
            /\ GateAt(calls[k].step) = {}
            /\ ExecutedAt(calls[k].step) = {}
            /\ ReadsAt(calls[k].step) = {}
            /\ IF k < Len(calls)
               THEN /\ calls[k + 1].step = calls[k].step + 1
                    /\ Len(calls[k + 1].history) = h + 2
               ELSE /\ pc = "call"
                    /\ step = calls[k].step + 1
                    /\ Len(messages) = h + 2
    /\ (calls # <<>> /\ \A k \in 1..Len(calls) : Answered(k) /\ ReplyOf(k) = RUN) =>
            /\ Cardinality(CriticalErrors) = Len(calls)
            /\ step = Len(calls) + 1
            /\ executed = <<>>
            /\ gate = <<>>
            /\ reads = <<>>

C6_Witness ==
    /\ Len(calls) = 3
    /\ \A k \in 1..Len(calls) : Answered(k) /\ ReplyOf(k) = RUN
    /\ Cardinality(CriticalErrors) = 3
    /\ step = 4

(***************************************************************************)
(* C7: the step counter starts at 1 and is incremented exactly once by     *)
(* every branch that goes on to another chat call; so chat call k is made  *)
(* at step k, and the step markers printed are 1, 2, 3, ...                *)
(***************************************************************************)
C7_StepCounter ==
    /\ Len(printed) = Len(calls)
    /\ \A i \in 1..Len(printed) : printed[i] = i
    /\ \A k \in 1..Len(calls) : calls[k].step = k
    /\ pc = "call" => step = Len(calls) + 1
    /\ pc \in {"confirm_run", "execute", "read_answer", "confirm_continue"} =>
           step = Len(calls)

C7_Witness ==
    /\ pc = "call"
    /\ step = 4
    /\ printed = <<1, 2, 3>>
    /\ Len(executed) = 1
    /\ Cardinality(CriticalErrors) = 1
    /\ \E g \in 1..Len(gate) : gate[g].message = ContinuePrompt

(***************************************************************************)
(* C8: executeCommand never returns an error: whether the command exits    *)
(* zero, exits non-zero or cannot be started, err is nil and a status and  *)
(* an output are returned; a failed command gets status ERROR and an       *)
(* output made of the error's description followed by the captured         *)
(* stderr; and the loop appends the result as the next user message.       *)
(***************************************************************************)
C8_ExecuteNeverFails ==
    \A i \in 1..Len(executed) :
        LET e == executed[i]
            h == Len(calls[e.step].history)
        IN  /\ e.err = "nil"
            /\ e.status \in {"SUCCESS", "ERROR"}
            /\ e.run.execErr # <<>> =>
                 /\ e.status = "ERROR"
                 /\ e.output = <<"Command failed with error: ">> \o e.run.execErr
                               \o <<"\n">> \o e.run.stderr
            /\ Len(messages) >= h + 2
            /\ messages[h + 2].role = "user"
            /\ messages[h + 2].content =
                 <<"PREVIOUS_COMMAND_RESULT:\n", "STATUS: ", e.status, "\n", "OUTPUT:\n">>
                 \o e.output \o <<"\n\n">>

C8_Witness ==
    /\ Len(executed) = 3
    /\ executed[1].run.execErr = <<"fork/exec: no such file or directory">>
    /\ executed[2].run.execErr = <<"exit status 1">>
    /\ executed[2].run.stderr = <<"boom\n">>
    /\ executed[3].run.execErr = <<>>

(***************************************************************************)
(* C9: every chat request holds exactly one system message, first, whose   *)
(* content is the system instruction runAgent was given, the same in every *)
(* request, followed by the history in its order; the history never holds  *)
(* a system message and the call leaves it as it was.                      *)
(***************************************************************************)
IsPrefix(a, b) == Len(a) <= Len(b) /\ SubSeq(b, 1, Len(a)) = a

C9_SystemMessageFirst ==
    /\ \A k \in 1..Len(calls) :
         LET rq == calls[k].request IN
         /\ Len(rq) = Len(calls[k].history) + 1
         /\ rq[1].role = "system"
         /\ rq[1].content = fullSystemPrompt
         /\ Cardinality({i \in 1..Len(rq) : rq[i].role = "system"}) = 1
         /\ \A i \in 1..Len(calls[k].history) : rq[i + 1] = calls[k].history[i]
         /\ rq[1] = calls[1].request[1]
         /\ IsPrefix(calls[k].history, messages)
    /\ \A i \in 1..Len(messages) : messages[i].role \in {"user", "assistant"}
    /\ \E t \in Tasks, c \in AdditionalContexts :
           fullSystemPrompt = generateSystemPrompt(t, c)

C9_Witness ==
    /\ Len(calls) = 3
    /\ Len(calls[3].request) = 6
    /\ calls[3].request[1].content = generateSystemPrompt("list files", "")
    /\ calls[3].outcome = "ok"

(***************************************************************************)
(* C10: the history is append-only: the history given to chat call k is a  *)
(* strict prefix of the one given to call k+1 and a prefix of the history  *)
(* now, and its first element is always user:"START".                      *)
(***************************************************************************)
C10_HistoryAppendOnly ==
    /\ messages # <<>>
    /\ messages[1] = Message("user", START)
    /\ \A k \in 1..Len(calls) :
         /\ calls[k].history # <<>>
         /\ calls[k].history[1] = Message("user", START)
         /\ IsPrefix(calls[k].history, messages)
         /\ k < Len(calls) =>
              /\ IsPrefix(calls[k].history, calls[k + 1].history)
              /\ Len(calls[k].history) < Len(calls[k + 1].history)

C10_Witness ==
    /\ Len(calls) = 3
    /\ Len(calls[1].history) = 1
    /\ Len(calls[2].history) = 3
    /\ Len(calls[3].history) = 5
    /\ Len(messages) = 7

(***************************************************************************)
(* C11: the exit status of the process.  As claimed: 0 when the run ends   *)
(* by TASK_COMPLETE or TASK_STOPPED, when the human declines at the gate   *)
(* and when the quit token is entered; non-zero when the task argument is  *)
(* missing, when loadConfig fails and when a chat call fails; a missing    *)
(* argument exits before loadConfig is called and a failure of loadConfig  *)
(* exits before the first chat call.                                       *)
(***************************************************************************)
RejectionErrors ==
    { "user rejected command, terminating",
      "user rejected unparseable model output, terminating" }

C11_ExitStatusAsClaimed ==
    pc = "exited" =>
        /\ Len(exitStatus) = 1
        /\ err = "nil" => exitStatus = <<0>>
        /\ err \in RejectionErrors => exitStatus = <<0>>
        /\ (gate # <<>> /\ gate[Len(gate)].answer = "exit") => exitStatus = <<0>>
        /\ startup = <<"usage">> => (exitStatus # <<0>> /\ calls = <<>>)
        /\ startup = <<"loadConfig", "fatal">> => (exitStatus # <<0>> /\ calls = <<>>)
        /\ err \in ChatErrors => exitStatus # <<0>>

(***************************************************************************)
(* C12: when the replies are k well-formed RUN replies followed by         *)
(* TASK_COMPLETE and every command was approved, exactly the k commands    *)
(* were executed, one per step and in the order of the replies, the run    *)
(* ended at step k+1 after k+1 chat calls, and runAgent returned nil.      *)
(***************************************************************************)
IsRunReply(k) ==
    Answered(k) /\ ParsedReply(k).action = RUN /\ ParsedReply(k).content # <<>>

\* the run so far is scripted: n well-formed RUN replies, each approved
ScriptedRuns(n) ==
    /\ n <= Len(calls)
    /\ \A i \in 1..n : IsRunReply(i)
    /\ \A g \in 1..Len(gate) : gate[g].step <= n => gate[g].answer = "approve"

C12_ScriptedRun ==
    /\ \A n \in 0..Len(calls) :
         (ScriptedRuns(n) /\ (pc = "call" \/ Len(calls) > n) /\ step > n) =>
             /\ Len(executed) >= n
             /\ \A i \in 1..n :
                  /\ executed[i].step = i
                  /\ executed[i].command = ParsedReply(i).content
    /\ \A k \in 0..Len(calls) :
         ( /\ Len(calls) = k + 1
           /\ ScriptedRuns(k)
           /\ Answered(k + 1)
           /\ ParsedReply(k + 1).action = TASK_COMPLETE ) =>
             /\ Len(executed) = k
             /\ step = k + 1
             /\ pc = "returned"
             /\ err = "nil"
             /\ ~ ENABLED Next

C12_Witness ==
    /\ Len(calls) = 3
    /\ ScriptedRuns(2)
    /\ Answered(3)
    /\ ParsedReply(3).action = TASK_COMPLETE
    /\ executed[1].command = <<"l","s">>
    /\ executed[2].command = <<"p","w","d">>
    /\ pc = "returned"

(***************************************************************************)
(* C13: executions and chat calls are strictly interleaved.  At most one   *)
(* command is executed in a step (between two consecutive chat calls), and *)
(* the result message of each executed command, with its status and its    *)
(* output, is in the history before the next chat call: the result         *)
(* messages in the history and in the request of every chat call are those *)
(* of the commands executed in the earlier steps, in execution order.      *)
(***************************************************************************)
IsResult(m) ==
    m.role = "user" /\ IsPrefix(<<"PREVIOUS_COMMAND_RESULT:\n">>, m.content)

Results(hist) == SelectSeq(hist, IsResult)

\* the result message of an execution: its status and its output in full
ResultOf(e) ==
    [role |-> "user",
     content |-> <<"PREVIOUS_COMMAND_RESULT:\n", "STATUS: ", e.status, "\n", "OUTPUT:\n">>
                 \o e.output \o <<"\n\n">>]

\* the result messages of the first n executions
ResultsOfFirst(n) == [i \in 1..n |-> ResultOf(executed[i])]

\* how many executions came before step s
ExecutedBefore(s) == Cardinality({i \in 1..Len(executed) : executed[i].step < s})

C13_StrictInterleaving ==
    /\ \A i, j \in 1..Len(executed) : i < j => executed[i].step < executed[j].step
    /\ \A n \in 1..step : Cardinality(ExecutedAt(n)) <= 1
    /\ Results(messages) = ResultsOfFirst(Len(executed))
    /\ \A k \in 1..Len(calls) :
         /\ Results(calls[k].history) = ResultsOfFirst(ExecutedBefore(calls[k].step))
         /\ Results(calls[k].request) = Results(calls[k].history)
         /\ \A i \in 1..Len(executed) :
              executed[i].step < calls[k].step =>
                  \E p \in 1..Len(calls[k].history) :
                      /\ calls[k].history[p] = ResultOf(executed[i])
                      /\ p = Len(calls[CallOfStep(executed[i].step)].history) + 2

C13_Witness ==
    /\ Len(calls) = 3
    /\ Len(executed) = 2
    /\ executed[1].status = "ERROR"
    /\ executed[2].status = "SUCCESS"
    /\ Len(Results(calls[3].history)) = 2
    /\ Results(calls[3].request)[1].content # Results(calls[3].request)[2].content

(***************************************************************************)
(* C14: how much the history grows in a step that continues the loop.      *)
(*                                                                         *)
(* As claimed: by one assistant turn plus one user turn per completed      *)
(* step, or by one user turn per malformed-reply recovery.                 *)
(*                                                                         *)
(* As the code has it: the assistant reply is appended before it is        *)
(* parsed, so every step that continues the loop, a malformed-reply        *)
(* recovery included, adds one assistant turn followed by one user turn;   *)
(* a step that ends the run adds the assistant turn alone, and a failed    *)
(* chat call adds nothing.                                                 *)
(***************************************************************************)
\* the number of messages added between chat call k and chat call k + 1
Growth(k) == Len(calls[k + 1].history) - Len(calls[k].history)

\* C14 as claimed
C14_AsClaimed ==
    \A k \in 1..(Len(calls) - 1) :
        IF IsMalformedReply(k)
        THEN /\ Growth(k) = 1
             /\ calls[k + 1].history[Len(calls[k].history) + 1].role = "user"
        ELSE /\ Growth(k) = 2
             /\ calls[k + 1].history[Len(calls[k].history) + 1].role = "assistant"
             /\ calls[k + 1].history[Len(calls[k].history) + 2].role = "user"

\* C14 as amended
C14_HistoryGrowth ==
    /\ \A k \in 1..(Len(calls) - 1) :
         /\ Growth(k) = 2
         /\ calls[k + 1].history[Len(calls[k].history) + 1].role = "assistant"
         /\ calls[k + 1].history[Len(calls[k].history) + 2].role = "user"
         /\ IsMalformedReply(k) =>
              IsCriticalError(calls[k + 1].history[Len(calls[k].history) + 2])
    /\ Len(messages) = 1 + 2 * (step - 1) + (IF Len(calls) = step /\ Answered(step) THEN 1 ELSE 0)
    /\ pc \in {"returned", "exited"} =>
         Len(messages) - Len(calls[Len(calls)].history)
             = (IF err \in ChatErrors THEN 0 ELSE 1)

C14_Witness ==
    /\ Len(calls) = 3
    /\ IsMalformedReply(1)
    /\ Cardinality(ExecutedAt(2)) = 1
    /\ Growth(1) = 2
    /\ Growth(2) = 2
    /\ pc = "returned"
    /\ err = "nil"

(***************************************************************************)
(* C15: a reply that parses as ASK with a non-empty payload makes the loop *)
(* read exactly one line from standard input, append exactly one user      *)
(* message made of "USER_CLARIFICATION: " and that line trimmed of         *)
(* surrounding whitespace, increment the step and continue; the gate is    *)
(* not invoked and nothing is executed in that step.                       *)
(***************************************************************************)
IsAskReply(k) ==
    Answered(k) /\ ParsedReply(k).action = ASK /\ ParsedReply(k).content # <<>>

C15_AskReadsOneLine ==
    \A k \in 1..Len(calls) :
        IsAskReply(k) =>
            LET s == calls[k].step
                h == Len(calls[k].history)
            IN  /\ GateAt(s) = {}
                /\ ExecutedAt(s) = {}
                /\ IF step = s
                   THEN /\ pc = "read_answer"
                        /\ ReadsAt(s) = {}
                        /\ Len(messages) = h + 1
                   ELSE /\ Cardinality(ReadsAt(s)) = 1
                        /\ \A i \in ReadsAt(s) :
                             /\ reads[i].by = "runAgent"
                             /\ messages[h + 2] =
                                  [role |-> "user",
                                   content |-> <<"USER_CLARIFICATION: ">>
                                               \o TrimSpace(reads[i].text)]
                        /\ k = Len(calls) => (Len(messages) = h + 2 /\ step = s + 1 /\ pc = "call")
                        /\ k < Len(calls) =>
                             (Len(calls[k + 1].history) = h + 2 /\ calls[k + 1].step = s + 1)

C15_Witness ==
    /\ Len(calls) = 2
    /\ IsAskReply(2)
    /\ pc = "call"
    /\ step = 3
    /\ reads[Len(reads)].text = <<" ", "a", "\n">>
    /\ messages[Len(messages)].content = <<"USER_CLARIFICATION: ", "a">>

(***************************************************************************)
(* C16: a reply whose keyword is none of the four is put to the gate with  *)
(* the question whether to continue.  On rejection runAgent returns an     *)
(* error and nothing follows the assistant reply in the history.  On       *)
(* approval exactly one user message describing the parse failure is       *)
(* appended, no command is executed, and the step is incremented.          *)
(*                                                                         *)
(* As claimed: that message includes the full raw reply.                   *)
(*                                                                         *)
(* As the code has it: that message ends with modelOutput, which is the    *)
(* reply trimmed of its leading and trailing whitespace (in full, not the  *)
(* part after the keyword); the raw reply itself is kept only in the       *)
(* assistant turn before it.                                               *)
(***************************************************************************)
IsUnrecognizedReply(k) ==
    Answered(k) /\ ParsedReply(k).action \notin {TASK_COMPLETE, TASK_STOPPED, RUN, ASK}

\* text occurs in the sequence s as a contiguous part
Includes(s, text) ==
    \E o \in 0..(Len(s) - Len(text)) : SubSeq(s, o + 1, o + Len(text)) = text

\* the message is the parse-failure notice
IsParseFailure(m) ==
    /\ m.role = "user"
    /\ m.content # <<>>
    /\ m.content[1] = "UNPARSEABLE_RESPONSE_ERROR: Your previous response did not follow the protocol. Your previous output was:\n"

\* what holds of an unrecognized reply whatever the notice carries
UnrecognizedHandled(k, Carried(_, _)) ==
    LET s == calls[k].step
        h == Len(calls[k].history)
        g == GateAt(s)
    IN  /\ ExecutedAt(s) = {}
        /\ \A i \in ReadsAt(s) : reads[i].by = "confirmAction"
        /\ \A i \in g : gate[i].message = ContinuePrompt
        /\ Cardinality(g) <= 1
        /\ g = {} => (pc = "confirm_continue" /\ step = s /\ Len(messages) = h + 1)
        /\ \A i \in g :
             CASE gate[i].answer = "reject" ->
                    /\ pc = "returned"
                    /\ err = "user rejected unparseable model output, terminating"
                    /\ Len(messages) = h + 1
                    /\ k = Len(calls)
               [] gate[i].answer = "exit" ->
                    /\ pc = "exited"
                    /\ Len(messages) = h + 1
                    /\ k = Len(calls)
               [] OTHER ->
                    /\ IsParseFailure(messages[h + 2])
                    /\ Carried(messages[h + 2].content, ReplyOf(k))
                    /\ k = Len(calls) => (Len(messages) = h + 2 /\ step = s + 1 /\ pc = "call")
                    /\ k < Len(calls) =>
                         (Len(calls[k + 1].history) = h + 2 /\ calls[k + 1].step = s + 1)

CarriesRawReply(text, reply) == Includes(Tail(text), reply)

CarriesTrimmedReply(text, reply) == Tail(text) = TrimSpace(reply)

Parsed == Len(calls) >= 1 /\ Answered(Len(calls))
LastReply == ReplyOf(Len(calls))
LastStep == calls[Len(calls)].step
LastHistory == Len(calls[Len(calls)].history)

HasNoSeparator(text) == \A i \in 1..Len(text) : text[i] \notin {" ", "\n"}

\* the step of the last reply went the way of a RUN without a command
HandledAsMalformedRun ==
    /\ GateAt(LastStep) = {}
    /\ ExecutedAt(LastStep) = {}
    /\ ReadsAt(LastStep) = {}
    /\ Len(messages) >= LastHistory + 2
    /\ messages[LastHistory + 2].role = "user"
    /\ messages[LastHistory + 2].content[1] =
         "CRITICAL ERROR: Previous response was RUN but provided no command. Full response was:\n"
    /\ step > LastStep

\* the step of the last reply ended the run as a terminal keyword does
HandledAsTerminal ==
    /\ pc = "returned"
    /\ err = "nil"
    /\ GateAt(LastStep) = {}
    /\ ExecutedAt(LastStep) = {}
    /\ ReadsAt(LastStep) = {}
    /\ Len(messages) = LastHistory + 1
    /\ ~ ENABLED ParseNext

(***************************************************************************)
(* C17: a reply that, once trimmed, holds no space and no newline is       *)
(* parsed into the keyword uppercase(reply) and an empty payload; so       *)
(* "run", "Run" and "RUN" alone are each handled as a RUN without a        *)
(* command, and "task_complete" alone ends the run as "TASK_COMPLETE"      *)
(* does.                                                                   *)
(***************************************************************************)
C17_NoSeparatorReply ==
    (Parsed /\ HasNoSeparator(TrimSpace(LastReply))) =>
        /\ modelOutput = TrimSpace(LastReply)
        /\ action = ToUpper(TrimSpace(LastReply))
        /\ content = <<>>
        /\ LastReply \in {<<"r","u","n">>, <<"R","u","n">>, <<"R","U","N">>} =>
             (action = <<"R","U","N">> /\ HandledAsMalformedRun)
        /\ LastReply \in { <<"t","a","s","k","_","c","o","m","p","l","e","t","e">>,
                          <<"T","A","S","K","_","C","O","M","P","L","E","T","E">> } =>
             (action = <<"T","A","S","K","_","C","O","M","P","L","E","T","E">>
              /\ HandledAsTerminal)

C17_Witness ==
    /\ Parsed
    /\ LastReply = <<"t","a","s","k","_","c","o","m","p","l","e","t","e">>
    /\ action = TASK_COMPLETE
    /\ content = <<>>
    /\ pc = "returned"
    /\ err = "nil"

(***************************************************************************)
(* C18: a reply made of the keyword RUN, one space or newline, and a       *)
(* command is parsed into the keyword RUN and the command without its      *)
(* leading and trailing whitespace, whether the command is on the same     *)
(* line, on the next line or on several lines; what is between stays as    *)
(* written, and that payload is what the gate shows and what is executed.  *)
(***************************************************************************)
\* the reply is "RUN", a space or a newline, and some text
IsRunForm(reply) ==
    /\ Len(reply) >= 4
    /\ SubSeq(reply, 1, 3) = <<"R","U","N">>
    /\ reply[4] \in {" ", "\n"}

\* the text after the keyword and its separator
CommandOf(reply) == SubSeq(reply, 5, Len(reply))

C18_RunPayload ==
    (Parsed /\ IsRunForm(LastReply)) =>
        LET cmd == CommandOf(LastReply) IN
        /\ action = <<"R","U","N">>
        /\ content = TrimSpace(cmd)
        /\ Includes(cmd, content)
        /\ content # <<>> =>
             /\ ~ IsSpace(content[1])
             /\ ~ IsSpace(content[Len(content)])
             /\ step = LastStep => pc \in {"confirm_run", "execute", "returned", "exited"}
        /\ content = <<>> => \A i \in 1..Len(cmd) : IsSpace(cmd[i])
        /\ \A g \in GateAt(LastStep) :
             gate[g].message = <<"shai wants to run this command:\n\n  $ ">>
                               \o TrimSpace(cmd) \o <<"\n\nAllow?">>
        /\ \A i \in ExecutedAt(LastStep) : executed[i].command = TrimSpace(cmd)
        /\ LastReply = <<"R","U","N"," "," ","l","s"," ","-","l"," ","\n">> =>
             content = <<"l","s"," ","-","l">>

C18_Witness ==
    /\ Parsed
    /\ LastReply = <<"R","U","N","\n","l","s","\n","p","w","d">>
    /\ content = <<"l","s","\n","p","w","d">>
    /\ Len(gate) = 1
    /\ gate[1].answer = "approve"
    /\ Len(executed) = 1
    /\ executed[1].command = <<"l","s","\n","p","w","d">>
    /\ executed[1].step = LastStep

(***************************************************************************)
(* C19: the keyword is compared after uppercasing and only TASK_COMPLETE,  *)
(* TASK_STOPPED, RUN and ASK are recognized.  A reply with any other       *)
(* keyword, the empty reply among them, goes to the continue prompt and    *)
(* never to the RUN, ASK or terminal handling, and what that branch works  *)
(* with is the whole text the parser was given (the reply trimmed of       *)
(* surrounding whitespace), not the part after the keyword.  A reply with  *)
(* one of the four keywords never goes to the continue prompt.             *)
(***************************************************************************)
RecognizedKeywords ==
    { <<"T","A","S","K","_","C","O","M","P","L","E","T","E">>,
      <<"T","A","S","K","_","S","T","O","P","P","E","D">>,
      <<"R","U","N">>,
      <<"A","S","K">> }

\* the text before the first space or newline
KeywordOf(text) ==
    IF HasNoSeparator(text) THEN text
    ELSE SubSeq(text, 1,
                (CHOOSE i \in 1..Len(text) :
                    /\ text[i] \in {" ", "\n"}
                    /\ \A j \in 1..(i - 1) : text[j] \notin {" ", "\n"}) - 1)

C19_OnlyFourKeywords ==
    Parsed =>
        LET text  == TrimSpace(LastReply)
            asked == {g \in GateAt(LastStep) : gate[g].message = ContinuePrompt}
        IN
        /\ action = ToUpper(KeywordOf(text))
        /\ LastReply = <<>> => action \notin RecognizedKeywords
        /\ action \in RecognizedKeywords =>
             /\ asked = {}
             /\ Len(messages) >= LastHistory + 2 =>
                  ~ IsParseFailure(messages[LastHistory + 2])
        /\ action \notin RecognizedKeywords =>
             /\ modelOutput = text
             /\ ExecutedAt(LastStep) = {}
             /\ \A i \in ReadsAt(LastStep) : reads[i].by = "confirmAction"
             /\ asked = GateAt(LastStep)
             /\ err # "nil"
             /\ step = LastStep =>
                  /\ pc \in {"confirm_continue", "returned", "exited"}
                  /\ pc = "confirm_continue" <=> asked = {}
                  /\ Len(messages) = LastHistory + 1
             /\ step > LastStep =>
                  /\ \E g \in asked : gate[g].answer = "approve"
                  /\ IsParseFailure(messages[LastHistory + 2])
                  /\ Tail(messages[LastHistory + 2].content) = text

C19_Witness ==
    /\ Parsed
    /\ LastReply = <<"l","s","\n","l","s">>
    /\ action = <<"L","S">>
    /\ Len(gate) = 1
    /\ gate[1].message = ContinuePrompt
    /\ gate[1].answer = "approve"
    /\ Tail(messages[LastHistory + 2].content) = <<"l","s","\n","l","s">>
    /\ step = LastStep + 1

(***************************************************************************)
(* C20: for a command that exits 0 after writing a text to its standard    *)
(* output, executeCommand returns the status SUCCESS and an output made of *)
(* a stdout section holding that text followed by a stderr section; the    *)
(* feedback user message the loop appends carries that status and that     *)
(* output.                                                                 *)
(***************************************************************************)
C20_SuccessOutput ==
    \A i \in 1..Len(executed) :
        LET e == executed[i]
            h == Len(calls[CallOfStep(e.step)].history)
        IN  e.run.execErr = <<>> =>
                /\ e.status = "SUCCESS"
                /\ e.err = "nil"
                /\ e.output = <<"STDOUT:\n">> \o e.run.stdout
                              \o <<"\nSTDERR:\n">> \o e.run.stderr
                /\ messages[h + 2].role = "user"
                /\ Includes(messages[h + 2].content, <<"STATUS: ", "SUCCESS", "\n">>)
                /\ Includes(messages[h + 2].content, <<"OUTPUT:\n">> \o e.output)
                /\ Includes(messages[h + 2].content,
                            <<"STDOUT:\n", "out\n", "\nSTDERR:\n">>)

C20_Witness ==
    /\ Len(executed) = 1
    /\ executed[1].run.stdout = <<"out\n">>
    /\ executed[1].status = "SUCCESS"
    /\ executed[1].output = <<"STDOUT:\n", "out\n", "\nSTDERR:\n", "warn\n">>
    /\ messages[3].content =
         <<"PREVIOUS_COMMAND_RESULT:\n", "STATUS: ", "SUCCESS", "\n", "OUTPUT:\n",
           "STDOUT:\n", "out\n", "\nSTDERR:\n", "warn\n", "\n\n">>

(***************************************************************************)
(* C21: at every chat call the history has the odd length 2*step - 1 and   *)
(* its roles alternate user, assistant, user, ..., from user:"START" to a  *)
(* user message at the end; every branch that continues the loop, the      *)
(* recovery from a malformed RUN or ASK and the unrecognized reply among   *)
(* them, adds one assistant message followed by one user message, so no    *)
(* two neighbouring messages have the same role.                           *)
(***************************************************************************)
RoleAt(i) == IF i % 2 = 1 THEN "user" ELSE "assistant"

Alternates(hist) == \A i \in 1..Len(hist) : hist[i].role = RoleAt(i)

C21_HistoryAlternates ==
    /\ \A k \in 1..Len(calls) :
         LET h == calls[k].history IN
         /\ Len(h) = 2 * calls[k].step - 1
         /\ h[1] = [role |-> "user", content |-> <<"S","T","A","R","T">>]
         /\ h[Len(h)].role = "user"
         /\ Alternates(h)
         /\ k < Len(calls) =>
              /\ Len(calls[k + 1].history) = Len(h) + 2
              /\ calls[k + 1].history[Len(h) + 1].role = "assistant"
              /\ calls[k + 1].history[Len(h) + 2].role = "user"
    /\ Alternates(messages)
    /\ \A i \in 1..(Len(messages) - 1) : messages[i].role # messages[i + 1].role
    /\ pc = "call" => Len(messages) = 2 * step - 1

C21_Witness ==
    /\ Len(calls) = 3
    /\ IsMalformedReply(1)
    /\ IsUnrecognizedReply(2)
    /\ Len(calls[3].history) = 5
    /\ IsCriticalError(calls[3].history[3])
    /\ IsParseFailure(calls[3].history[5])

(***************************************************************************)
(* C22: the run ends only by a TASK_COMPLETE or TASK_STOPPED reply, by a   *)
(* rejection at the gate, by the quit token at the gate, or by a failed    *)
(* chat call.  The loop has no bound of its own on the number of steps:    *)
(* as long as none of these has happened the run has not ended, a further  *)
(* step of the loop is possible, and every pass ends back at the chat call *)
(* with the step counter one higher; so with a model that always replies   *)
(* "RUN" without a command, or that always asks, the run is still going    *)
(* after any number of chat calls.  (In the model only MaxSteps stops the  *)
(* chat call.)                                                             *)
(***************************************************************************)
Ended == pc \in {"returned", "exited"}

EndedByKeyword ==
    /\ calls # <<>>
    /\ Answered(Len(calls))
    /\ ToUpper(KeywordOf(TrimSpace(ReplyOf(Len(calls))))) \in
         { <<"T","A","S","K","_","C","O","M","P","L","E","T","E">>,
           <<"T","A","S","K","_","S","T","O","P","P","E","D">> }

EndedByRejection ==
    gate # <<>> /\ gate[Len(gate)].step = step /\ gate[Len(gate)].answer = "reject"

EndedByQuit ==
    gate # <<>> /\ gate[Len(gate)].step = step /\ gate[Len(gate)].answer = "exit"

EndedByChatFailure ==
    calls # <<>> /\ calls[Len(calls)].outcome \in ChatFailures

\* none of the four events has happened so far
NoEndingEvent ==
    /\ \A k \in 1..Len(calls) :
         /\ calls[k].outcome = "ok"
         /\ ParsedReply(k).action \notin {TASK_COMPLETE, TASK_STOPPED}
    /\ \A g \in 1..Len(gate) : gate[g].answer = "approve"

AlwaysReplied(reply) ==
    calls # <<>> /\ \A k \in 1..Len(calls) : Answered(k) /\ ReplyOf(k) = reply

C22_EndsOnlyByEvent ==
    /\ Ended =>
         /\ Cardinality({e \in {"keyword", "rejection", "quit", "failure"} :
                CASE e = "keyword"   -> EndedByKeyword
                  [] e = "rejection" -> EndedByRejection
                  [] e = "quit"      -> EndedByQuit
                  [] e = "failure"   -> EndedByChatFailure}) = 1
         /\ EndedByKeyword <=> (pc = "returned" /\ err = "nil")
         /\ EndedByRejection <=> (pc = "returned" /\ err \in RejectionErrors)
         /\ EndedByChatFailure <=> (pc = "returned" /\ err \in ChatErrors)
         /\ EndedByQuit <=> pc = "exited"
    /\ NoEndingEvent =>
         /\ ~ Ended
         /\ err = "running"
         /\ pc = "call" => step = Len(calls) + 1
         /\ pc # "call" => step = Len(calls)
         /\ (pc # "call" \/ step <= MaxSteps) => ENABLED Next
    /\ AlwaysReplied(<<"R","U","N">>) =>
         (pc = "call" /\ step = Len(calls) + 1 /\ executed = <<>> /\ gate = <<>>)
    /\ AlwaysReplied(<<"A","S","K"," ","o","k","?">>) =>
         (pc \in {"call", "read_answer"} /\ executed = <<>> /\ gate = <<>>)

C22_Witness ==
    /\ AlwaysReplied(<<"R","U","N">>)
    /\ Len(calls) = 3
    /\ step = 4
    /\ pc = "call"
    /\ NoEndingEvent

(***************************************************************************)
(* C23: when a read of standard input returns no data and an error,        *)
(* confirmAction drops the error and answers approval, and the ASK branch  *)
(* appends a clarification with nothing after its prefix.  So with         *)
(* standard input at its end every well-formed RUN command is executed     *)
(* though nobody entered a line, an unrecognized reply is continued, and   *)
(* the run never ends because of the failed read: it ends only by a        *)
(* terminal keyword or a failed chat call.                                 *)
(***************************************************************************)
C23_EndOfInput ==
    /\ \A g \in 1..Len(gate) : gate[g].answer = "approve"
    /\ \A i \in 1..Len(reads) : reads[i].by = "runAgent" => reads[i].text = <<>>
    /\ pc # "exited"
    /\ err \notin RejectionErrors
    /\ Ended => (EndedByKeyword \/ EndedByChatFailure)
    /\ line # NoLine => (line = <<>> /\ pc = "execute")
    /\ \A k \in 1..Len(calls) :
         LET s == calls[k].step
             h == Len(calls[k].history)
         IN  /\ IsRunReply(k) =>
                  IF step = s
                  THEN pc \in {"confirm_run", "execute"}
                  ELSE /\ Cardinality(GateAt(s)) = 1
                       /\ Cardinality(ReadsAt(s)) = 1
                       /\ Cardinality(ExecutedAt(s)) = 1
                       /\ \A i \in ExecutedAt(s) :
                            executed[i].command = ParsedReply(k).content
             /\ (IsAskReply(k) /\ step > s) =>
                  messages[h + 2] =
                      [role |-> "user", content |-> <<"USER_CLARIFICATION: ">>]
             /\ (IsUnrecognizedReply(k) /\ step > s) =>
                  IsParseFailure(messages[h + 2])

C23_Witness ==
    /\ Len(calls) = 3
    /\ IsRunReply(1)
    /\ IsAskReply(2)
    /\ IsRunReply(3)
    /\ Len(executed) = 2
    /\ Len(gate) = 2
    /\ messages[5].content = <<"USER_CLARIFICATION: ">>
    /\ step = 4

(***************************************************************************)
(* C24: only a space or a newline ends the action keyword.                 *)
(*                                                                         *)
(* As claimed: a reply in which a recognized keyword is directly followed  *)
(* by a tab or by the carriage return of a "\r\n" line ending is not that  *)
(* keyword but unrecognized, so its command is never executed and          *)
(* TASK_COMPLETE / TASK_STOPPED followed by such a character does not end  *)
(* the run.                                                                *)
(*                                                                         *)
(* As the code has it: that holds when something other than whitespace     *)
(* comes after the tab or carriage return ("RUN\tls", "RUN\r\nls").  When  *)
(* only whitespace follows ("TASK_COMPLETE\r\n", "RUN\t") the reply is     *)
(* trimmed before the keyword is looked for, the character is gone, and    *)
(* the keyword is recognized: TASK_COMPLETE ends the run, RUN and ASK are  *)
(* the malformed forms.                                                    *)
(***************************************************************************)
\* the lengths of the recognized keywords
KeywordLengths == {Len(kw) : kw \in RecognizedKeywords}

\* the reply starts with a recognized keyword, in any case, of n characters
\* and a tab or carriage return right after it
KeywordThenOtherSpace(reply, n) ==
    /\ Len(reply) > n
    /\ ToUpper(SubSeq(reply, 1, n)) \in RecognizedKeywords
    /\ reply[n + 1] \in {"\t", "\r"}

\* the last reply went to the continue prompt and nowhere else
HandledAsUnrecognized ==
    /\ action \notin RecognizedKeywords
    /\ ExecutedAt(LastStep) = {}
    /\ \A g \in GateAt(LastStep) : gate[g].message = ContinuePrompt
    /\ \A i \in ReadsAt(LastStep) : reads[i].by = "confirmAction"
    /\ err # "nil"
    /\ GateAt(LastStep) = {} => pc = "confirm_continue"
    /\ step > LastStep => IsParseFailure(messages[LastHistory + 2])

\* C24 as claimed
C24_AsClaimed ==
    Parsed =>
        \A n \in KeywordLengths :
            KeywordThenOtherSpace(LastReply, n) => HandledAsUnrecognized

\* C24 as amended
C24_OtherWhitespace ==
    Parsed =>
        \A n \in KeywordLengths :
            KeywordThenOtherSpace(LastReply, n) =>
                LET kw    == ToUpper(SubSeq(LastReply, 1, n))
                    after == SubSeq(LastReply, n + 1, Len(LastReply))
                IN  IF \E i \in 1..Len(after) : ~ IsSpace(after[i])
                    THEN /\ HandledAsUnrecognized
                         /\ Len(action) > n
                         /\ SubSeq(action, 1, n) = kw
                         /\ action[n + 1] \in {"\t", "\r"}
                    ELSE /\ action = kw
                         /\ content = <<>>
                         /\ GateAt(LastStep) = {}
                         /\ ExecutedAt(LastStep) = {}
                         /\ kw \in { <<"T","A","S","K","_","C","O","M","P","L","E","T","E">>,
                                     <<"T","A","S","K","_","S","T","O","P","P","E","D">> }
                              => HandledAsTerminal
                         /\ kw = <<"R","U","N">> => HandledAsMalformedRun
                         /\ kw = <<"A","S","K">> =>
                              (step > LastStep /\ IsCriticalError(messages[LastHistory + 2]))

C24_Witness ==
    /\ Parsed
    /\ LastReply = <<"R","U","N","\r","\n","l","s">>
    /\ action = <<"R","U","N","\r">>
    /\ Len(gate) = 1
    /\ gate[1].message = ContinuePrompt
    /\ gate[1].answer = "approve"
    /\ executed = <<>>
    /\ step = LastStep + 1

====
